---- MODULE Spec2Model ----
(***************************************************************************)
(* libclz string buffer (strbuf.h, char* revision with the allocation size *)
(* stored in a size_t header in front of the data pointer).                *)
(*                                                                         *)
(* A buffer is modelled as the heap block behind the handle:               *)
(*   id   - identity of the malloc'd block (0 is the NULL pointer)         *)
(*   hdr  - the size_t header, the value strbuf_alloc_size reports         *)
(*   size - number of data bytes the malloc call really reserved           *)
(*   mem  - the data bytes, offset i of the C code is mem[i + 1]           *)
(* Bytes malloc has not initialised are UNINIT.  Their value is            *)
(* indeterminate: when the code comes to depend on them (a strlen, or a    *)
(* strncpy that wrote no terminator) they show the allocator's leftover,   *)
(* drawn nondeterministically for the run: some JUNK bytes followed by a   *)
(* NUL, or no NUL up to the end of the block.  A read or write outside the *)
(* block is undefined behaviour: the model records fault and stops there.  *)
(***************************************************************************)
EXTENDS Integers, Sequences, FiniteSets, TLC

VARIABLES buf, pre, call, ret, val, live, nalloc, mfail, fault, dfree, track, nops, junk, iter

vars == <<buf, pre, call, ret, val, live, nalloc, mfail, fault, dfree, track, nops, junk, iter>>

(***************************************************************************)
(* Program constants                                                       *)
(***************************************************************************)
CLZ_STRBUF_ALLOC == 32

(***************************************************************************)
(* Bounds of the model                                                     *)
(***************************************************************************)
\* number of mutating calls made on one buffer
MaxOps == 2
\* longest run of non-NUL leftover bytes the allocator shows before a NUL
MaxJunk == 1
\* longest caller string built from Chars (besides the strings of the tests)
MaxStr == 1

(***************************************************************************)
(* Bytes                                                                   *)
(***************************************************************************)
NUL == "nul"

JUNK == "junk"

UNINIT == "uninit"

Chars == {"a", "b"}

\* what a string scan finds in memory malloc did not initialise: n >= 0 junk
\* bytes and then a NUL, or (-1) no NUL up to the end of the block
Leftover == (0 .. MaxJunk) \cup {0 - 1}

RECURSIVE Rep(_, _)
Rep(c, n) == IF n = 0 THEN << >> ELSE <<c>> \o Rep(c, n - 1)

(***************************************************************************)
(* C string primitives on the data bytes of a block                        *)
(***************************************************************************)
\* index of the first NUL at or after index i (0: none inside the block)
RECURSIVE FirstNul(_, _)
FirstNul(mem, i) ==
    IF i > Len(mem) THEN 0
    ELSE IF mem[i] = NUL THEN i
    ELSE FirstNul(mem, i + 1)

HasNul(mem) == FirstNul(mem, 1) # 0

\* strlen: offset of the first NUL (callers check HasNul: without one the
\* scan leaves the block)
Strlen(mem) == FirstNul(mem, 1) - 1

\* the C string a handle points to: the bytes in front of the first NUL
Content(mem) == SubSeq(mem, 1, Strlen(mem))

\* the C string at p + off (off <= strlen(p))
StrAt(s, off) == SubSeq(s, off + 1, Len(s))

\* data bytes of a block fresh from malloc
Fresh(n) == [i \in 1 .. n |-> UNINIT]

\* the indeterminate bytes from index i on, as far as a string scan reads
\* them: g junk bytes and then a NUL (g < 0: junk to the end of the block)
RECURSIVE Resolve(_, _, _)
Resolve(mem, i, g) ==
    IF i > Len(mem) THEN mem
    ELSE IF mem[i] = NUL THEN mem
    ELSE IF mem[i] # UNINIT THEN Resolve(mem, i + 1, g)
    ELSE IF g = 0 THEN [mem EXCEPT ![i] = NUL]
    ELSE Resolve([mem EXCEPT ![i] = JUNK], i + 1, g - 1)

\* strcpy(dst, src): the bytes of src up to and including its terminator
Strcpy(dst, src) ==
    LET n == Strlen(src) + 1 IN
    [i \in 1 .. Len(dst) |-> IF i <= n THEN src[i] ELSE dst[i]]

\* strncpy(mem + off, s, n): exactly n bytes are written, the bytes of s and
\* then NUL padding when s is shorter than n; no terminator otherwise
Strncpy(mem, off, s, n) ==
    LET ls == Len(s) IN
    [i \in 1 .. Len(mem) |->
        IF i > off /\ i <= off + n
        THEN (IF i - off <= ls THEN s[i - off] ELSE NUL)
        ELSE mem[i]]

(***************************************************************************)
(* The heap during one call.  t is the call's context:                     *)
(*   live  - ids of the blocks allocated and not released                  *)
(*   cnt   - allocations requested so far in this call                     *)
(*   f     - the allocation of this call that fails (0: none)              *)
(*   g     - the allocator's leftover (see Leftover)                       *)
(*   mfail - an allocation failed; fault - an access left its block;       *)
(*   dfree - a block was released that was not live                        *)
(***************************************************************************)
NULL == [id |-> 0, hdr |-> 0, size |-> 0, mem |-> << >>]

Ctx(lv, f, g) ==
    [live |-> lv, cnt |-> 0, f |-> f, g |-> g,
     mfail |-> FALSE, fault |-> FALSE, dfree |-> FALSE]

FreshId(lv) == CHOOSE i \in 1 .. (Cardinality(lv) + 1) : i \notin lv

\* malloc: the id of the new block (0 when the allocation fails)
Malloc(t) ==
    IF t.cnt + 1 = t.f
    THEN [p |-> 0, t |-> [t EXCEPT !.cnt = @ + 1, !.mfail = TRUE]]
    ELSE [p |-> FreshId(t.live),
          t |-> [t EXCEPT !.cnt = @ + 1, !.live = @ \cup {FreshId(t.live)}]]

\* free
Release(t, id) ==
    IF id \in t.live THEN [t EXCEPT !.live = @ \ {id}]
    ELSE [t EXCEPT !.dfree = TRUE]

\* result of a call: its return value, the block behind the handle, the heap
Res(ok, b, t) == [ok |-> ok, b |-> b, t |-> t]

\* an access outside the block: behaviour is undefined from here
Faulted(b, t) == [ok |-> FALSE, b |-> b, t |-> [t EXCEPT !.fault = TRUE]]

\* result of a call that returns a number (an offset, a count or one of the
\* negative codes of clz.h): ok tells whether it is not one of the codes
IntRes(v, b, t) == [ok |-> v >= 0, b |-> b, t |-> t, val |-> v]

(***************************************************************************)
(* Capacity manager                                                        *)
(***************************************************************************)
\* size_t strbuf_alloc_size(char *strbuf)
strbuf_alloc_size(b) == b.hdr

\* char *strbuf_new_size(size_t sz): the block holds CLZ_STRBUF_ALLOC data
\* bytes whatever sz is, the header is sz, the data bytes are not written
strbuf_new_size(t, sz) ==
    LET m == Malloc(t) IN
    IF m.p = 0 THEN Res(FALSE, NULL, m.t)
    ELSE Res(TRUE,
             [id |-> m.p, hdr |-> sz, size |-> CLZ_STRBUF_ALLOC,
              mem |-> Resolve(Fresh(CLZ_STRBUF_ALLOC), 1, t.g)],
             m.t)

\* char *strbuf_new()
strbuf_new(t) == strbuf_new_size(t, CLZ_STRBUF_ALLOC)

\* for (sz = len + 1; sz < minsize; sz *= 2);
RECURSIVE GrowLoop(_, _)
GrowLoop(sz, minsize) == IF sz < minsize THEN GrowLoop(sz * 2, minsize) ELSE sz

\* ResizedBlock without the strcpy: the new block starts as the empty string
ResizedBlock_NoCopy(id, sz, b) ==
    [id |-> id, hdr |-> sz, size |-> sz, mem |-> [Fresh(sz) EXCEPT ![1] = NUL]]

\* the block strbuf_resize builds: header sz, sz data bytes, strcpy of *dest
ResizedBlock(id, sz, b) ==
    [id |-> id, hdr |-> sz, size |-> sz, mem |-> Strcpy(Fresh(sz), b.mem)]

\* strbuf_resize releasing *dest before it knows that malloc succeeded
strbuf_resize_FreeFirst(t, b, minsize) ==
    IF ~HasNul(b.mem) THEN Faulted(b, t)
    ELSE LET len == Strlen(b.mem) IN
         IF len >= minsize + 1 THEN Res(FALSE, b, t)
         ELSE LET sz == GrowLoop(len + 1, minsize)
                  m == Malloc(Release(t, b.id))
              IN IF m.p = 0 THEN Res(FALSE, b, m.t)
                 ELSE Res(TRUE, ResizedBlock(m.p, sz, b), m.t)

\* strbuf_resize keeping the block whenever it is already large enough
strbuf_resize_GrowOnly(t, b, minsize) ==
    IF ~HasNul(b.mem) THEN Faulted(b, t)
    ELSE LET len == Strlen(b.mem) IN
         IF len >= minsize + 1 THEN Res(FALSE, b, t)
         ELSE LET sz == GrowLoop(len + 1, minsize)
                  m == Malloc(t)
              IN IF sz <= strbuf_alloc_size(b) THEN Res(TRUE, b, t)
                 ELSE IF m.p = 0 THEN Res(FALSE, b, m.t)
                 ELSE Res(TRUE, ResizedBlock(m.p, sz, b), Release(m.t, b.id))

\* strbuf_resize with the length check off by one: if (len > minsize + 1)
strbuf_resize_LaxCheck(t, b, minsize) ==
    IF ~HasNul(b.mem) THEN Faulted(b, t)
    ELSE LET len == Strlen(b.mem) IN
         IF len > minsize + 1 THEN Res(FALSE, b, t)
         ELSE LET sz == GrowLoop(len + 1, minsize)
                  m == Malloc(t)
              IN IF m.p = 0 THEN Res(FALSE, b, m.t)
                 ELSE Res(TRUE, ResizedBlock(m.p, sz, b), Release(m.t, b.id))

\* bool strbuf_resize(char **dest, size_t minsize)
strbuf_resize(t, b, minsize) ==
    IF ~HasNul(b.mem) THEN Faulted(b, t)
    ELSE LET len == Strlen(b.mem) IN
         IF len >= minsize + 1 THEN Res(FALSE, b, t)
         ELSE LET sz == GrowLoop(len + 1, minsize)
                  m == Malloc(t)
              IN IF m.p = 0 THEN Res(FALSE, b, m.t)
                 ELSE Res(TRUE, ResizedBlock(m.p, sz, b), Release(m.t, b.id))

\* bool strbuf_compress(char **dest)
strbuf_compress(t, b) ==
    IF ~HasNul(b.mem) THEN Faulted(b, t)
    ELSE strbuf_resize(t, b, Strlen(b.mem))

\* void strbuf_free(char *strbuf)
strbuf_free(t, b) == Release(t, b.id)

(***************************************************************************)
(* Append                                                                  *)
(***************************************************************************)
\* strncpy(*dest + strlen(*dest), src, n) and the string that results
AppendCopy(t, b, len, src, n) ==
    IF len + n > b.size THEN Faulted(b, t)
    ELSE Res(TRUE,
             [b EXCEPT !.mem = Resolve(Strncpy(b.mem, len, src, n), len + 1, t.g)],
             t)

\* bool strbuf_append_strn(char **dest, char *src, size_t n)
strbuf_append_strn(t, b, src, n) ==
    IF ~HasNul(b.mem) THEN Faulted(b, t)
    ELSE LET len == Strlen(b.mem)
             minsize == len + Len(src) + 1
             r == IF strbuf_alloc_size(b) < minsize
                  THEN strbuf_resize(t, b, minsize)
                  ELSE Res(TRUE, b, t)
         IN IF ~r.ok THEN r
            ELSE AppendCopy(r.t, r.b, len, src, n)

\* bool strbuf_append_char(char **destbuf, char c)
strbuf_append_char(t, b, c) == strbuf_append_strn(t, b, <<c>>, 1)

\* bool strbuf_append_str(char **dest, char *src)
strbuf_append_str(t, b, src) == strbuf_append_strn(t, b, src, Len(src))

\* char *strbuf_clone(char *strbuf, bool bufsz); s is the string at strbuf
\* and hdr the size_t in front of it
RECURSIVE CloneLoop(_, _)
CloneLoop(s, len) ==
    IF s <= len \/ s < CLZ_STRBUF_ALLOC THEN CloneLoop(s * 2, len) ELSE s

strbuf_clone(t, s, hdr, bufsz) ==
    LET r == IF bufsz THEN strbuf_new_size(t, hdr)
             ELSE strbuf_new_size(t, CloneLoop(2, Len(s)))
    IN IF ~r.ok THEN r
       ELSE LET a == strbuf_append_str(r.t, r.b, s) IN
            IF a.t.fault THEN a
            ELSE IF ~a.ok THEN Res(FALSE, NULL, strbuf_free(a.t, a.b))
            ELSE a

\* char *strbuf_new_str(char *s)
strbuf_new_str(t, s) == strbuf_clone(t, s, 0, FALSE)

(***************************************************************************)
(* Insert and remove: the result is built in a new buffer bufnew, which    *)
(* replaces *destbuf only when every step succeeded                        *)
(***************************************************************************)
\* if (!ret) { strbuf_free(bufnew); return false; }
\* strbuf_free(*destbuf); *destbuf = bufnew; return true;
Swap(b, r) ==
    IF r.t.fault THEN Faulted(b, r.t)
    ELSE IF ~r.ok THEN Res(FALSE, b, strbuf_free(r.t, r.b))
    ELSE Res(TRUE, r.b, strbuf_free(r.t, b))

\* bool strbuf_insert_char(char **destbuf, char c, size_t index)
strbuf_insert_char(t, b, c, index) ==
    IF ~HasNul(b.mem) THEN Faulted(b, t)
    ELSE LET s == Content(b.mem) IN
         IF index > Len(s) THEN Res(FALSE, b, t)
         ELSE LET r0 == strbuf_new_size(t, strbuf_alloc_size(b) + 1) IN
              IF ~r0.ok THEN Res(FALSE, b, r0.t)
              ELSE LET r1 == strbuf_append_strn(r0.t, r0.b, s, index)
                       r2 == IF r1.ok THEN strbuf_append_char(r1.t, r1.b, c)
                             ELSE r1
                       r3 == IF r2.ok
                             THEN strbuf_append_str(r2.t, r2.b, StrAt(s, index))
                             ELSE r2
                   IN Swap(b, r3)

\* strbuf_insert_strn with the index check off by one: index > strlen + 1
strbuf_insert_strn_OffByOne(t, b, s, index, maxlen) ==
    IF ~HasNul(b.mem) THEN Faulted(b, t)
    ELSE LET d == Content(b.mem)
             ml == IF maxlen > Len(s) THEN Len(s) ELSE maxlen
         IN
         IF index > Len(d) + 1 THEN Res(FALSE, b, t)
         ELSE LET r0 == strbuf_new_size(t, strbuf_alloc_size(b) + ml) IN
              IF ~r0.ok THEN Res(FALSE, b, r0.t)
              ELSE LET r1 == strbuf_append_strn(r0.t, r0.b, d, index)
                       r2 == IF r1.ok THEN strbuf_append_strn(r1.t, r1.b, s, ml)
                             ELSE r1
                       r3 == IF r2.ok
                             THEN strbuf_append_str(r2.t, r2.b, StrAt(d, index))
                             ELSE r2
                   IN Swap(b, r3)

\* bool strbuf_insert_strn(char **destbuf, char *s, size_t index, size_t maxlen)
strbuf_insert_strn(t, b, s, index, maxlen) ==
    IF ~HasNul(b.mem) THEN Faulted(b, t)
    ELSE LET d == Content(b.mem)
             ml == IF maxlen > Len(s) THEN Len(s) ELSE maxlen
         IN
         IF index > Len(d) THEN Res(FALSE, b, t)
         ELSE LET r0 == strbuf_new_size(t, strbuf_alloc_size(b) + ml) IN
              IF ~r0.ok THEN Res(FALSE, b, r0.t)
              ELSE LET r1 == strbuf_append_strn(r0.t, r0.b, d, index)
                       r2 == IF r1.ok THEN strbuf_append_strn(r1.t, r1.b, s, ml)
                             ELSE r1
                       r3 == IF r2.ok
                             THEN strbuf_append_str(r2.t, r2.b, StrAt(d, index))
                             ELSE r2
                   IN Swap(b, r3)

\* bool strbuf_insert_str(char **destbuf, char *s, size_t index)
strbuf_insert_str(t, b, s, index) == strbuf_insert_strn(t, b, s, index, Len(s))

\* the body shared by strbuf_remove_char and strbuf_remove_str once the range
\* [start, end) is known to be valid
RemoveRange(t, b, d, start, end) ==
    LET r0 == strbuf_new_size(t, strbuf_alloc_size(b)) IN
    IF ~r0.ok THEN Res(FALSE, b, r0.t)
    ELSE LET r1 == strbuf_append_strn(r0.t, r0.b, d, start)
             r2 == IF r1.ok THEN strbuf_append_str(r1.t, r1.b, StrAt(d, end))
                   ELSE r1
         IN Swap(b, r2)

\* bool strbuf_remove_char(char **destbuf, size_t index)
strbuf_remove_char(t, b, index) ==
    IF ~HasNul(b.mem) THEN Faulted(b, t)
    ELSE LET d == Content(b.mem) IN
         IF index >= Len(d) THEN Res(FALSE, b, t)
         ELSE RemoveRange(t, b, d, index, index + 1)

\* bool strbuf_remove_str(char **destbuf, size_t start, size_t end)
strbuf_remove_str(t, b, start, end) ==
    IF start >= end THEN Res(FALSE, b, t)
    ELSE IF ~HasNul(b.mem) THEN Faulted(b, t)
    ELSE LET d == Content(b.mem) IN
         IF start >= Len(d) THEN Res(FALSE, b, t)
         ELSE RemoveRange(t, b, d, start, IF end >= Len(d) THEN Len(d) ELSE end)

(***************************************************************************)
(* Trim, padding, find and replace                                         *)
(***************************************************************************)
\* clz.h
CLZ_NOT_FOUND == -1

CLZ_GENERAL_FAIL == -2

\* a block from a plain malloc(n) holding what strncpy(cpy, s, Len(s)) wrote:
\* the bytes of s and no terminator, the last byte of the block unwritten
CopyBlock(s, g) == Resolve(Strncpy(Fresh(Len(s) + 1), 0, s, Len(s)), 1, g)

\* void strbuf_trim_index(char **destbuf, size_t start, size_t end)
strbuf_trim_index(t, b, start, end) ==
    IF ~HasNul(b.mem) THEN Faulted(b, t)
    ELSE LET len == Strlen(b.mem)
             e == IF end > len THEN len ELSE end
         IN
         IF start >= len \/ start >= e
         THEN Res(TRUE, [b EXCEPT !.mem[1] = NUL], t)
         ELSE LET m == Malloc(t)
                  cpy == CopyBlock(SubSeq(b.mem, start + 1, e), t.g)
              IN IF m.p = 0 THEN Res(TRUE, b, m.t)
                 ELSE IF ~HasNul(cpy) THEN Faulted(b, m.t)
                 ELSE Res(TRUE, [b EXCEPT !.mem = Strcpy(b.mem, cpy)],
                          Release(m.t, m.p))

\* void strbuf_trim_length(char **destbuf, size_t length)
strbuf_trim_length(t, b, length) == strbuf_trim_index(t, b, 0, length)

\* for (; *head != 0 && *head == c; ++head);  the offset head ends at
RECURSIVE HeadRun(_, _, _)
HeadRun(d, c, k) ==
    IF k < Len(d) /\ d[k + 1] = c THEN HeadRun(d, c, k + 1) ELSE k

\* a copy of n bytes from offset k to offset 0 of the same block that starts
\* at the last byte (memcpy taken backwards)
RECURSIVE CopyDown(_, _, _)
CopyDown(mem, k, i) ==
    IF i = 0 THEN mem
    ELSE CopyDown([mem EXCEPT ![i] = mem[i + k]], k, i - 1)

\* what the C library may do with strcpy(dst, dst + k), whose objects overlap
OverlapOutcomes == {"forward", "backward", "trap"}

\* strcpy(*dest, head) with head = *dest + k: source and destination overlap,
\* which strcpy leaves undefined; ov is what the C library does with it: the
\* copy byte by byte from the front, the same bytes copied from the back, or
\* the abort of a checking strcpy
StrcpyOverlap(t, b, k, ov) ==
    LET n == Strlen(b.mem) - k + 1 IN
    IF ov = "trap" THEN Faulted(b, t)
    ELSE IF ov = "backward"
    THEN Res(TRUE, [b EXCEPT !.mem = CopyDown(b.mem, k, n)], t)
    ELSE Res(TRUE,
             [b EXCEPT !.mem = [i \in 1 .. Len(b.mem) |->
                                    IF i <= n THEN b.mem[i + k] ELSE b.mem[i]]],
             t)

\* void strbuf_trim_head_char(char **dest, char c): strdup(head) is only
\* tested and released, the copy is made from head itself
strbuf_trim_head_char(t, b, c, ov) ==
    IF ~HasNul(b.mem) THEN Faulted(b, t)
    ELSE LET m == Malloc(t) IN
         IF m.p = 0 THEN Res(TRUE, b, m.t)
         ELSE StrcpyOverlap(Release(m.t, m.p), b,
                            HeadRun(Content(b.mem), c, 0), ov)

\* for (; tail != *dest - 1 && *tail == c; --tail);  tail as an offset, -1
\* for *dest - 1 (a byte of the header, compared but not read)
RECURSIVE TailRun(_, _, _)
TailRun(d, c, k) ==
    IF k # 0 - 1 /\ d[k + 1] = c THEN TailRun(d, c, k - 1) ELSE k

\* void strbuf_trim_tail_char(char **dest, char c): *++tail = 0
strbuf_trim_tail_char(t, b, c) ==
    IF ~HasNul(b.mem) THEN Faulted(b, t)
    ELSE Res(TRUE,
             [b EXCEPT !.mem[TailRun(Content(b.mem), c, Strlen(b.mem) - 1) + 2] = NUL],
             t)

\* strncmp(hay + i, s, strlen(s)) == 0
MatchAt(hay, i, s) ==
    /\ i + Len(s) <= Len(hay)
    /\ SubSeq(hay, i + 1, i + Len(s)) = s

\* for (size_t i = 0; i < strlen(*destbuf); ++i) if (!strncmp(...)) return i;
RECURSIVE FindFrom(_, _, _)
FindFrom(hay, s, i) ==
    IF i >= Len(hay) THEN CLZ_NOT_FOUND
    ELSE IF MatchAt(hay, i, s) THEN i
    ELSE FindFrom(hay, s, i + 1)

\* int strbuf_find_first_str(char **destbuf, char *s); hay is the string at
\* *destbuf
strbuf_find_first_str(hay, s) == FindFrom(hay, s, 0)

\* for (int i = strlen(*destbuf) - 1; i >= 0; --i)
\*     if (!strncmp(*destbuf + i, s, strlen(s))) return i;
RECURSIVE FindBack(_, _, _)
FindBack(hay, s, i) ==
    IF i < 0 THEN CLZ_NOT_FOUND
    ELSE IF MatchAt(hay, i, s) THEN i
    ELSE FindBack(hay, s, i - 1)

\* strbuf_find_last_str searching from the front: the first occurrence
strbuf_find_last_str_First(hay, s) == FindFrom(hay, s, 0)

\* int strbuf_find_last_str(char **destbuf, char *s), hay the content
strbuf_find_last_str(hay, s) == FindBack(hay, s, Len(hay) - 1)

\* a search called on a handle: strlen(*destbuf) leaves the block when it
\* holds no terminator; the block is not written
FindCall(t, b, v) ==
    IF ~HasNul(b.mem) THEN Faulted(b, t) ELSE IntRes(v, b, t)

\* the string strlen, strcpy and the appends find at padbuf: memset wrote
\* padlen bytes of the padlen + 1 the block has and no terminator
PadBlock(c, padlen, g) == CopyBlock(Rep(c, padlen), g)

\* bool strbuf_padding_head(char **destbuf, char c, size_t sz)
strbuf_padding_head(t, b, c, sz) ==
    IF ~HasNul(b.mem) THEN Faulted(b, t)
    ELSE LET len == Strlen(b.mem) IN
         IF len > sz THEN Res(FALSE, b, t)
         ELSE IF len = sz THEN Res(TRUE, b, t)
         ELSE LET m == Malloc(t)
                  padbuf == PadBlock(c, sz - len, t.g)
              IN IF m.p = 0 THEN Res(FALSE, b, m.t)
                 ELSE IF ~HasNul(padbuf) THEN Faulted(b, m.t)
                 ELSE LET r == strbuf_insert_str(m.t, b, Content(padbuf), 0) IN
                      IF r.t.fault THEN r
                      ELSE Res(r.ok, r.b, Release(r.t, m.p))

\* bool strbuf_padding_tail(char **destbuf, char c, size_t sz)
strbuf_padding_tail(t, b, c, sz) ==
    IF ~HasNul(b.mem) THEN Faulted(b, t)
    ELSE LET len == Strlen(b.mem) IN
         IF len > sz THEN Res(FALSE, b, t)
         ELSE IF len = sz THEN Res(TRUE, b, t)
         ELSE LET m == Malloc(t)
                  padbuf == PadBlock(c, sz - len, t.g)
              IN IF m.p = 0 THEN Res(FALSE, b, m.t)
                 ELSE IF ~HasNul(padbuf) THEN Faulted(b, m.t)
                 ELSE LET r == strbuf_append_str(m.t, b, Content(padbuf)) IN
                      IF r.t.fault THEN r
                      ELSE Res(r.ok, r.b, Release(r.t, m.p))

\* strbuf_replace_first_str from the malloc of buf on: start and end are the
\* two trimmed clones, n the size asked for buf
ReplaceCommit(t, b, ind, start, rep, end, n) ==
    LET m == Malloc(t)
        str == Content(start.mem) \o rep \o Content(end.mem)
        len == Len(str)
    IN IF m.p = 0 THEN IntRes(CLZ_GENERAL_FAIL, b, m.t)
       ELSE IF len + 1 > n THEN Faulted(b, m.t)
       ELSE LET r == IF len >= strbuf_alloc_size(b)
                     THEN strbuf_resize(m.t, b, len + 1)
                     ELSE Res(TRUE, b, m.t)
            IN IF r.t.fault THEN Faulted(b, r.t)
               ELSE IF len + 1 > r.b.size THEN Faulted(r.b, r.t)
               ELSE IntRes(ind,
                           [r.b EXCEPT !.mem = Strcpy(r.b.mem, Append(str, NUL))],
                           Release(r.t, m.p))

\* the steps of strbuf_replace_first_str after the search, each on the result
\* of the call before it: the clone start, its trim to [0, ind), the clone
\* end, its trim to [ind + strlen(s), strlen), and the commit
ReplaceEnd(end, b, ind, start, rep, n) ==
    IF end.t.fault THEN Faulted(b, end.t)
    ELSE ReplaceCommit(end.t, b, ind, start, rep, end.b, n)

ReplaceCloneEnd(c2, b, d, s, rep, ind, start) ==
    IF c2.t.fault \/ c2.b = NULL THEN Faulted(b, c2.t)
    ELSE ReplaceEnd(strbuf_trim_index(c2.t, c2.b, ind + Len(s), Len(d)),
                    b, ind, start, rep, Len(d) + Len(rep) - Len(s) + 1)

ReplaceStart(start, b, d, s, rep, ind) ==
    IF start.t.fault THEN Faulted(b, start.t)
    ELSE ReplaceCloneEnd(strbuf_clone(start.t, d, strbuf_alloc_size(b), FALSE),
                         b, d, s, rep, ind, start.b)

ReplaceCloneStart(c1, b, d, s, rep, ind) ==
    IF c1.t.fault \/ c1.b = NULL THEN Faulted(b, c1.t)
    ELSE ReplaceStart(strbuf_trim_index(c1.t, c1.b, 0, ind), b, d, s, rep, ind)

ReplaceAt(t, b, d, s, rep, ind) ==
    IF ind = CLZ_NOT_FOUND THEN IntRes(CLZ_NOT_FOUND, b, t)
    ELSE ReplaceCloneStart(strbuf_clone(t, d, strbuf_alloc_size(b), FALSE),
                           b, d, s, rep, ind)

\* int strbuf_replace_first_str(char **destbuf, char *s, char *t); rep is the
\* replacement t of the code.  Neither clone is tested against NULL before
\* strbuf_trim_index reads it, and neither is released.
strbuf_replace_first_str(t, b, s, rep) ==
    IF ~HasNul(b.mem) THEN Faulted(b, t)
    ELSE ReplaceAt(t, b, Content(b.mem), s, rep,
                   strbuf_find_first_str(Content(b.mem), s))

\* the while loop of strbuf_replace_all_str and the append after it; r.b is
\* newbuf, the results of the appends are not tested
\* one turn of the while loop of strbuf_replace_all_str, head the offset
\* found: the two appends to newbuf (r.b), their results not tested
ReplaceTurn(r, haystack, head, rep) ==
    LET a1 == strbuf_append_strn(r.t, r.b, haystack, head) IN
    IF a1.t.fault THEN a1 ELSE strbuf_append_str(a1.t, a1.b, rep)

\* the append after the loop: the rest of the haystack; count is returned
ReplaceRest(r, haystack, count) ==
    LET a == strbuf_append_str(r.t, r.b, haystack) IN
    IF a.t.fault THEN a ELSE IntRes(count, a.b, a.t)

RECURSIVE ReplaceLoop(_, _, _, _, _)
ReplaceLoop(r, haystack, s, rep, count) ==
    IF r.t.fault THEN r
    ELSE LET head == strbuf_find_first_str(haystack, s) IN
         IF head = CLZ_NOT_FOUND THEN ReplaceRest(r, haystack, count)
         ELSE ReplaceLoop(ReplaceTurn(r, haystack, head, rep),
                          StrAt(haystack, head + Len(s)), s, rep, count + 1)

\* size_t strbuf_replace_all_str(char **destbuf, char *s, char *t); newbuf is
\* not tested against NULL before the appends read it
strbuf_replace_all_str(t, b, s, rep) ==
    IF ~HasNul(b.mem) THEN Faulted(b, t)
    ELSE LET r0 == strbuf_new_size(t, strbuf_alloc_size(b)) IN
         IF r0.b = NULL THEN Faulted(b, r0.t)
         ELSE LET r == ReplaceLoop(r0, Content(b.mem), s, rep, 0) IN
              IF r.t.fault THEN Faulted(b, r.t)
              ELSE IntRes(r.val, r.b, strbuf_free(r.t, b))

(***************************************************************************)
(* Inputs of the calls                                                     *)
(***************************************************************************)
\* caller strings: every string over Chars of at most MaxStr bytes, and the
\* 31 byte string of the tests ("A string that is 31 chars long.")
ShortStrs == UNION {[1 .. n -> Chars] : n \in 0 .. MaxStr}

Str31 == Rep("a", CLZ_STRBUF_ALLOC - 1)

Strs == ShortStrs \cup {Str31}

\* strbuf_new_str is also given a string one byte longer than the default size
Str33 == Rep("a", CLZ_STRBUF_ALLOC + 1)

NewStrArgs == Strs \cup {Str33}

\* sizes asked of strbuf_new_size and of strbuf_resize (from the tests)
NewSizeArgs == {0, 32, 33, 34, 65}

ResizeArgs == {0, 1, 5, 31, 32, 33, 63}

\* indexes and counts
Idx == 0 .. (MaxStr + 1)

\* which allocation of a call fails (0: none), n the most a call makes
Fails(n) == 0 .. n

\* needles of strbuf_replace_all_str: with the empty needle and a non-empty
\* content its loop finds a match at offset 0 for ever and the call does not
\* return
Needles == ShortStrs \ {<< >>}

\* replacements of strbuf_replace_all_str: the short strings and one that is
\* longer than the needle and contains it
Replacements == ShortStrs \cup {<<"a", "b">>}

(***************************************************************************)
(* The caller: one handle buf (NULL before construction and after          *)
(* strbuf_free), on which it makes up to MaxOps mutating calls.            *)
(*   pre   - the block behind the handle before the last call              *)
(*   call  - the last call and its arguments, ret - its return value       *)
(*   val   - the number the last call returned, when it returns a number   *)
(*   live, mfail, fault, dfree - the heap after the last call (see Ctx)    *)
(*   nalloc - the number of allocations the last call asked for            *)
(*   track - while the buffer was only made by strbuf_new / strbuf_new_str *)
(*           and appended to by strbuf_append_char: the bytes given so far *)
(*   junk  - the leftover the allocator's memory shows in this run         *)
(*   iter  - the locals of a strbuf_replace_all_str that is followed turn  *)
(*           by turn of its loop (LoopSpec); it is atomic in Spec          *)
(***************************************************************************)
\* no strbuf_replace_all_str is inside its loop
NoIter ==
    [on |-> FALSE, newbuf |-> NULL, haystack |-> << >>, s |-> << >>,
     rep |-> << >>, count |-> 0]

Init ==
    /\ buf = NULL
    /\ pre = NULL
    /\ call = [name |-> "init", args |-> << >>]
    /\ ret = FALSE
    /\ val = 0
    /\ live = {}
    /\ nalloc = 0
    /\ mfail = FALSE
    /\ fault = FALSE
    /\ dfree = FALSE
    /\ track = [on |-> FALSE, s |-> << >>]
    /\ nops = 0
    /\ junk \in Leftover
    /\ iter = NoIter

Untracked == [on |-> FALSE, s |-> << >>]

\* the state after a call that returned r
Done(name, args, r, tr, n) ==
    /\ buf' = r.b
    /\ pre' = buf
    /\ call' = [name |-> name, args |-> args]
    /\ ret' = r.ok
    /\ val' = (IF "val" \in DOMAIN r THEN r.val ELSE 0)
    /\ live' = r.t.live
    /\ nalloc' = r.t.cnt
    /\ mfail' = r.t.mfail
    /\ fault' = r.t.fault
    /\ dfree' = (dfree \/ r.t.dfree)
    /\ track' = tr
    /\ nops' = n
    /\ junk' = junk
    /\ iter' = NoIter

CanConstruct == buf = NULL /\ nops = 0 /\ ~fault

CanMutate == buf # NULL /\ nops < MaxOps /\ ~fault

New ==
    /\ CanConstruct
    /\ \E f \in Fails(1) :
        LET r == strbuf_new(Ctx(live, f, junk)) IN
        Done("new", << >>, r, [on |-> r.ok, s |-> << >>], 0)

NewSize ==
    /\ CanConstruct
    /\ \E sz \in NewSizeArgs, f \in Fails(1) :
        Done("new_size", <<sz>>, strbuf_new_size(Ctx(live, f, junk), sz), Untracked, 0)

NewStr ==
    /\ CanConstruct
    /\ \E s \in NewStrArgs, f \in Fails(2) :
        LET r == strbuf_new_str(Ctx(live, f, junk), s) IN
        Done("new_str", <<s>>, r, [on |-> r.ok, s |-> s], 0)

Free ==
    /\ CanMutate
    /\ Done("free", << >>, Res(TRUE, NULL, strbuf_free(Ctx(live, 0, junk), buf)),
            Untracked, nops + 1)

Resize ==
    /\ CanMutate
    /\ \E m \in ResizeArgs, f \in Fails(1) :
        Done("resize", <<m>>, strbuf_resize(Ctx(live, f, junk), buf, m),
             Untracked, nops + 1)

Compress ==
    /\ CanMutate
    /\ \E f \in Fails(1) :
        Done("compress", << >>, strbuf_compress(Ctx(live, f, junk), buf),
             Untracked, nops + 1)

AppendChar ==
    /\ CanMutate
    /\ \E c \in Chars, f \in Fails(1) :
        LET r == strbuf_append_char(Ctx(live, f, junk), buf, c) IN
        Done("append_char", <<c>>, r,
             IF r.ok THEN [track EXCEPT !.s = Append(@, c)] ELSE track,
             nops + 1)

AppendStr ==
    /\ CanMutate
    /\ \E s \in Strs, f \in Fails(1) :
        Done("append_str", <<s>>, strbuf_append_str(Ctx(live, f, junk), buf, s),
             Untracked, nops + 1)

AppendStrn ==
    /\ CanMutate
    /\ \E s \in Strs, n \in Idx, f \in Fails(1) :
        Done("append_strn", <<s, n>>, strbuf_append_strn(Ctx(live, f, junk), buf, s, n),
             Untracked, nops + 1)

InsertChar ==
    /\ CanMutate
    /\ \E c \in Chars, i \in Idx, f \in Fails(4) :
        Done("insert_char", <<c, i>>, strbuf_insert_char(Ctx(live, f, junk), buf, c, i),
             Untracked, nops + 1)

InsertStr ==
    /\ CanMutate
    /\ \E s \in Strs, i \in Idx, f \in Fails(4) :
        Done("insert_str", <<s, i>>, strbuf_insert_str(Ctx(live, f, junk), buf, s, i),
             Untracked, nops + 1)

InsertStrn ==
    /\ CanMutate
    /\ \E s \in Strs, i \in Idx, n \in Idx, f \in Fails(4) :
        Done("insert_strn", <<s, i, n>>,
             strbuf_insert_strn(Ctx(live, f, junk), buf, s, i, n),
             Untracked, nops + 1)

RemoveChar ==
    /\ CanMutate
    /\ \E i \in Idx, f \in Fails(3) :
        Done("remove_char", <<i>>, strbuf_remove_char(Ctx(live, f, junk), buf, i),
             Untracked, nops + 1)

RemoveStr ==
    /\ CanMutate
    /\ \E i \in Idx, j \in Idx, f \in Fails(3) :
        Done("remove_str", <<i, j>>, strbuf_remove_str(Ctx(live, f, junk), buf, i, j),
             Untracked, nops + 1)

\* the caller keeps the source; the model follows the clone
Clone ==
    /\ CanMutate
    /\ HasNul(buf.mem)
    /\ \E bufsz \in BOOLEAN, f \in Fails(2) :
        Done("clone", <<bufsz>>,
             strbuf_clone(Ctx(live, f, junk), Content(buf.mem),
                          strbuf_alloc_size(buf), bufsz),
             Untracked, nops + 1)

TrimIndex ==
    /\ CanMutate
    /\ \E i \in Idx, j \in Idx, f \in Fails(1) :
        Done("trim_index", <<i, j>>, strbuf_trim_index(Ctx(live, f, junk), buf, i, j),
             Untracked, nops + 1)

PaddingHead ==
    /\ CanMutate
    /\ \E c \in Chars, sz \in Idx, f \in Fails(5) :
        Done("padding_head", <<c, sz>>,
             strbuf_padding_head(Ctx(live, f, junk), buf, c, sz),
             Untracked, nops + 1)

PaddingTail ==
    /\ CanMutate
    /\ \E c \in Chars, sz \in Idx, f \in Fails(2) :
        Done("padding_tail", <<c, sz>>,
             strbuf_padding_tail(Ctx(live, f, junk), buf, c, sz),
             Untracked, nops + 1)

TrimHeadChar ==
    /\ CanMutate
    /\ \E c \in Chars, ov \in OverlapOutcomes, f \in Fails(1) :
        Done("trim_head_char", <<c, ov>>,
             strbuf_trim_head_char(Ctx(live, f, junk), buf, c, ov),
             Untracked, nops + 1)

TrimTailChar ==
    /\ CanMutate
    /\ \E c \in Chars :
        Done("trim_tail_char", <<c>>,
             strbuf_trim_tail_char(Ctx(live, 0, junk), buf, c),
             Untracked, nops + 1)

FindFirstStr ==
    /\ CanMutate
    /\ \E s \in ShortStrs :
        Done("find_first_str", <<s>>,
             FindCall(Ctx(live, 0, junk), buf,
                      strbuf_find_first_str(Content(buf.mem), s)),
             Untracked, nops + 1)

FindLastStr ==
    /\ CanMutate
    /\ \E s \in ShortStrs :
        Done("find_last_str", <<s>>,
             FindCall(Ctx(live, 0, junk), buf,
                      strbuf_find_last_str(Content(buf.mem), s)),
             Untracked, nops + 1)

ReplaceFirstStr ==
    /\ CanMutate
    /\ \E s \in ShortStrs, rep \in Strs, f \in Fails(6) :
        Done("replace_first_str", <<s, rep>>,
             strbuf_replace_first_str(Ctx(live, f, junk), buf, s, rep),
             Untracked, nops + 1)

ReplaceAllStr ==
    /\ CanMutate
    /\ \E s \in Needles, rep \in Replacements, f \in Fails(3) :
        Done("replace_all_str", <<s, rep>>,
             strbuf_replace_all_str(Ctx(live, f, junk), buf, s, rep),
             Untracked, nops + 1)

Next ==
    \/ New
    \/ NewSize
    \/ NewStr
    \/ Free
    \/ Resize
    \/ Compress
    \/ AppendChar
    \/ AppendStr
    \/ AppendStrn
    \/ InsertChar
    \/ InsertStr
    \/ InsertStrn
    \/ RemoveChar
    \/ RemoveStr
    \/ Clone
    \/ TrimIndex
    \/ PaddingHead
    \/ PaddingTail
    \/ TrimHeadChar
    \/ TrimTailChar
    \/ FindFirstStr
    \/ FindLastStr
    \/ ReplaceFirstStr
    \/ ReplaceAllStr

Spec == Init /\ [][Next]_vars

(***************************************************************************)
(* strbuf_replace_all_str followed turn by turn of its while loop.  iter   *)
(* holds its locals: newbuf, haystack (the bytes from the haystack pointer *)
(* to the terminator), the arguments s and t (rep) and count.              *)
(***************************************************************************)
\* count is a size_t: it wraps; SizeBits is the width it is given here
SizeBits == 6

SizeMod == 2 ^ SizeBits

\* the replacements given with needle s: with the empty needle every turn
\* appends the replacement once more, so only the empty one keeps newbuf
\* bounded
LoopReplacements(s) == IF s = << >> THEN {<< >>} ELSE Replacements

\* from the call to the first test of the loop: newbuf and haystack are set
ReplaceAllBegin ==
    /\ CanMutate
    /\ ~iter.on
    /\ HasNul(buf.mem)
    /\ \E s \in ShortStrs :
        \E rep \in LoopReplacements(s) :
            LET r0 == strbuf_new_size(Ctx(live, 0, junk), strbuf_alloc_size(buf)) IN
            /\ iter' = [on |-> TRUE, newbuf |-> r0.b, haystack |-> Content(buf.mem),
                        s |-> s, rep |-> rep, count |-> 0]
            /\ call' = [name |-> "replace_all_str", args |-> <<s, rep>>]
            /\ pre' = buf
            /\ live' = r0.t.live
            /\ UNCHANGED <<buf, ret, val, nalloc, mfail, fault, dfree, track, nops, junk>>

\* one turn of the loop: the needle is found in the haystack
ReplaceAllTurn ==
    /\ iter.on
    /\ strbuf_find_first_str(iter.haystack, iter.s) # CLZ_NOT_FOUND
    /\ LET head == strbuf_find_first_str(iter.haystack, iter.s)
           a == ReplaceTurn(Res(TRUE, iter.newbuf, Ctx(live, 0, junk)),
                            iter.haystack, head, iter.rep)
       IN /\ iter' = IF a.t.fault THEN NoIter
                     ELSE [iter EXCEPT
                              !.newbuf = a.b,
                              !.haystack = StrAt(iter.haystack, head + Len(iter.s)),
                              !.count = (@ + 1) % SizeMod]
          /\ fault' = a.t.fault
          /\ live' = a.t.live
          /\ UNCHANGED <<buf, pre, call, ret, val, nalloc, mfail, dfree, track, nops, junk>>

\* the needle is not found: the last append, the old block is released and
\* the handle set to newbuf
ReplaceAllEnd ==
    /\ iter.on
    /\ strbuf_find_first_str(iter.haystack, iter.s) = CLZ_NOT_FOUND
    /\ LET r == ReplaceRest(Res(TRUE, iter.newbuf, Ctx(live, 0, junk)),
                            iter.haystack, iter.count)
       IN Done("replace_all_str", call.args,
               IF r.t.fault THEN Faulted(buf, r.t)
               ELSE IntRes(r.val, r.b, strbuf_free(r.t, buf)),
               Untracked, nops + 1)

LoopNext ==
    \/ New
    \/ NewSize
    \/ NewStr
    \/ ReplaceAllBegin
    \/ ReplaceAllTurn
    \/ ReplaceAllEnd

LoopSpec == Init /\ [][LoopNext]_vars

(***************************************************************************)
(* Properties                                                              *)
(***************************************************************************)
IsCall(name) == call.name = name

Max(a, b) == IF a >= b THEN a ELSE b

RECURSIVE Pow2From(_, _)
Pow2From(p, n) == IF p >= n THEN p ELSE Pow2From(2 * p, n)

\* least power of two >= n
Pow2Ceil(n) == Pow2From(1, n)

IsPow2(n) == n >= 1 /\ Pow2Ceil(n) = n

\* least power of two >= n that is not below the default size
FitCapacity(n) == Max(CLZ_STRBUF_ALLOC, Pow2Ceil(n))

\* the last call ran to its end and no allocation failed in it
Completed == ~mfail /\ ~fault

\* C1: the buffer strbuf_new_size(n) returns reports as its capacity the least
\* power of two >= n, and CLZ_STRBUF_ALLOC when n <= CLZ_STRBUF_ALLOC
C1_NewSizeCapacity ==
    (IsCall("new_size") /\ buf # NULL)
        => strbuf_alloc_size(buf) = FitCapacity(call.args[1])

\* C2: the capacity reported for a live buffer is always a power of two and
\* at least CLZ_STRBUF_ALLOC
C2_CapacityPow2 ==
    (buf # NULL)
        => IsPow2(strbuf_alloc_size(buf)) /\ strbuf_alloc_size(buf) >= CLZ_STRBUF_ALLOC

\* C3: every live buffer is null-terminated inside its capacity: there is a
\* NUL at offset length and length + 1 <= capacity
C3_Terminated ==
    (buf # NULL)
        => HasNul(buf.mem) /\ Strlen(buf.mem) + 1 <= strbuf_alloc_size(buf)

AllocatingCalls ==
    {"resize", "append_char", "append_str", "append_strn", "insert_char",
     "insert_str", "insert_strn", "remove_char", "remove_str"}

\* C4: when an allocation fails during resize, append, insert or remove, the
\* call returns false, the handle still refers to the original block, that
\* block has not been released, and header and bytes are as before the call
C4_AllocFailureAtomic ==
    (mfail /\ call.name \in AllocatingCalls)
        => /\ ret = FALSE
           /\ buf = pre
           /\ buf.id \in live
           /\ ~dfree

\* a call that had built its temporary buffer when a later allocation failed
C4_Witness ==
    /\ mfail
    /\ nalloc >= 2
    /\ IsCall("insert_strn")
    /\ ret = FALSE
    /\ buf = pre
    /\ Strlen(buf.mem) >= 1

\* C5: after strbuf_resize(&b, m) with m >= strlen(b) the capacity is the
\* least power of two >= m, and not below CLZ_STRBUF_ALLOC
C5_ResizeCapacity ==
    (IsCall("resize") /\ Completed /\ HasNul(pre.mem)
     /\ call.args[1] >= Strlen(pre.mem))
        => strbuf_alloc_size(buf) = FitCapacity(call.args[1])

C8_CompressCapacity ==
    (IsCall("compress") /\ ret)
        => /\ strbuf_alloc_size(buf) = FitCapacity(Strlen(pre.mem) + 1)
           /\ HasNul(buf.mem)
           /\ Content(buf.mem) = Content(pre.mem)

\* C9: a strbuf_resize that returns true leaves the content, terminator
\* included, byte for byte as it was
C9_ResizeKeepsContent ==
    (IsCall("resize") /\ ret)
        => /\ HasNul(buf.mem)
           /\ Content(buf.mem) = Content(pre.mem)

\* a resize that moved a non-empty content to a block of another capacity
C9_Witness ==
    /\ IsCall("resize")
    /\ ret
    /\ buf.id # pre.id
    /\ strbuf_alloc_size(buf) # strbuf_alloc_size(pre)
    /\ Len(Content(pre.mem)) >= CLZ_STRBUF_ALLOC - 1

\* C10: from strbuf_new() or strbuf_new_str(s), after successful
\* strbuf_append_char calls the content is the initial content followed by the
\* appended bytes, and the capacity is the least power of two >= length + 1,
\* not below CLZ_STRBUF_ALLOC
C10_AppendCharGrowth ==
    (track.on /\ IsCall("append_char") /\ ret)
        => /\ HasNul(buf.mem)
           /\ Content(buf.mem) = track.s
           /\ strbuf_alloc_size(buf) = FitCapacity(Len(track.s) + 1)

\* the call reached its return true: it came back with true, or the model
\* stopped at an access outside the block that the code does not notice
ReturnedTrue == fault \/ ret = TRUE

\* C11: strbuf_append_strn(&b, src, n) that returns true leaves the old
\* content followed by the first min(n, strlen(src)) bytes of src, terminated
\* there, with capacity >= new length + 1 (strbuf_append_str: n = strlen(src))
C11_AppendStrnContent ==
    (call.name \in {"append_strn", "append_str"} /\ HasNul(pre.mem) /\ ReturnedTrue)
        => LET src == call.args[1]
               n == IF IsCall("append_str") THEN Len(src) ELSE call.args[2]
               k == IF n <= Len(src) THEN n ELSE Len(src)
           IN /\ ~fault
              /\ HasNul(buf.mem)
              /\ Content(buf.mem) = Content(pre.mem) \o SubSeq(src, 1, k)
              /\ strbuf_alloc_size(buf) >= Strlen(buf.mem) + 1

InsertCalls == {"insert_char", "insert_str", "insert_strn"}

\* the string an insert call was given, and how many of its bytes it may take
InsertedStr == IF IsCall("insert_char") THEN <<call.args[1]>> ELSE call.args[1]

InsertedMax == IF IsCall("insert_strn") THEN call.args[3] ELSE Len(InsertedStr)

\* C12: for index <= strlen(b) a successful insert leaves b[0, index), then
\* the first min(maxlen, strlen(s)) bytes of s, then b[index, length), and a
\* terminator after them
C12_InsertContent ==
    (call.name \in InsertCalls /\ HasNul(pre.mem)
     /\ call.args[2] <= Strlen(pre.mem) /\ ReturnedTrue)
        => LET d == Content(pre.mem)
               index == call.args[2]
               k == IF InsertedMax <= Len(InsertedStr) THEN InsertedMax
                    ELSE Len(InsertedStr)
           IN /\ ~fault
              /\ HasNul(buf.mem)
              /\ Content(buf.mem)
                    = SubSeq(d, 1, index) \o SubSeq(InsertedStr, 1, k)
                        \o SubSeq(d, index + 1, Len(d))

PaddingCalls == {"padding_head", "padding_tail"}

\* the last call was given an index or a range its function rejects
InvalidIndex ==
    \/ call.name \in InsertCalls /\ call.args[2] > Strlen(pre.mem)
    \/ IsCall("remove_char") /\ call.args[1] >= Strlen(pre.mem)
    \/ IsCall("remove_str")
        /\ (call.args[1] >= call.args[2] \/ call.args[1] >= Strlen(pre.mem))
    \/ call.name \in PaddingCalls /\ Strlen(pre.mem) > call.args[2]

\* C13: an insert with index > strlen(b), a remove_char with index >=
\* strlen(b), a remove_str with start >= end or start >= strlen(b) and a
\* padding with strlen(b) > sz return false, allocate nothing and leave the
\* block behind the handle (capacity and bytes) as it was
C13_InvalidIndexRejected ==
    (HasNul(pre.mem) /\ InvalidIndex)
        => /\ ~fault
           /\ ret = FALSE
           /\ buf = pre
           /\ nalloc = 0
           /\ buf.id \in live

\* a padding to a size below the length of a non-empty content, rejected
C13_Witness ==
    /\ call.name \in PaddingCalls
    /\ HasNul(pre.mem)
    /\ Strlen(pre.mem) > call.args[2]
    /\ call.args[2] >= 1
    /\ ret = FALSE
    /\ buf = pre

\* C14: strbuf_insert_str(&b, s, strlen(b)) succeeds and leaves the content
\* that strbuf_append_str(&b, s) leaves on a buffer with the same content
\* (here: on the block as it was before the insert), which succeeds too
C14_InsertAtEndIsAppend ==
    (IsCall("insert_str") /\ ~mfail /\ HasNul(pre.mem)
     /\ call.args[2] = Strlen(pre.mem))
        => LET a == strbuf_append_str(Ctx({pre.id}, 0, junk), pre, call.args[1]) IN
           /\ ~fault
           /\ ~a.t.fault
           /\ ret = TRUE
           /\ a.ok = TRUE
           /\ HasNul(buf.mem)
           /\ HasNul(a.b.mem)
           /\ Content(buf.mem) = Content(a.b.mem)

\* C15: strbuf_clone(b, true) returns a new buffer with the content, the
\* length and the capacity of b
C15_CloneSameSize ==
    (IsCall("clone") /\ call.args[1] = TRUE /\ ~mfail)
        => /\ ~fault
           /\ buf # NULL
           /\ buf.id # pre.id
           /\ HasNul(buf.mem)
           /\ Content(buf.mem) = Content(pre.mem)
           /\ strbuf_alloc_size(buf) = strbuf_alloc_size(pre)

\* C16: strbuf_clone(b, false) and strbuf_new_str(s) return a buffer with the
\* content of the source and as capacity the least power of two >= length + 1,
\* not below CLZ_STRBUF_ALLOC, whatever the capacity of the source
C16_CloneFitCapacity ==
    ((IsCall("new_str") \/ (IsCall("clone") /\ call.args[1] = FALSE)) /\ ~mfail)
        => LET s == IF IsCall("new_str") THEN call.args[1] ELSE Content(pre.mem) IN
           /\ ~fault
           /\ buf # NULL
           /\ HasNul(buf.mem)
           /\ Content(buf.mem) = s
           /\ strbuf_alloc_size(buf) = FitCapacity(Len(s) + 1)

\* C17: strbuf_new() returns a buffer of capacity CLZ_STRBUF_ALLOC holding the
\* empty string, and every buffer strbuf_new_size(n) returns has length 0
C17_NewIsEmpty ==
    ((IsCall("new") \/ IsCall("new_size")) /\ buf # NULL)
        => /\ HasNul(buf.mem)
           /\ Strlen(buf.mem) = 0
           /\ (IsCall("new") => strbuf_alloc_size(buf) = CLZ_STRBUF_ALLOC)

\* what replacing, left to right, every non-overlapping occurrence of the
\* non-empty s in d by rep gives, and how many occurrences that is
RECURSIVE Replaced(_, _, _)
Replaced(d, s, rep) ==
    IF d = << >> THEN << >>
    ELSE IF MatchAt(d, 0, s) THEN rep \o Replaced(StrAt(d, Len(s)), s, rep)
    ELSE <<d[1]>> \o Replaced(StrAt(d, 1), s, rep)

RECURSIVE Occurrences(_, _)
Occurrences(d, s) ==
    IF d = << >> THEN 0
    ELSE IF MatchAt(d, 0, s) THEN 1 + Occurrences(StrAt(d, Len(s)), s)
    ELSE Occurrences(StrAt(d, 1), s)

\* C18: strbuf_replace_all_str(&b, s, t) with a non-empty s returns the number
\* of non-overlapping occurrences of s, left to right, and leaves the content
\* with each of them replaced by t and every other byte kept in order
C18_ReplaceAllContent ==
    (IsCall("replace_all_str") /\ HasNul(pre.mem) /\ ~mfail)
        => LET d == Content(pre.mem)
               s == call.args[1]
               rep == call.args[2]
           IN /\ ~fault
              /\ val = Occurrences(d, s)
              /\ HasNul(buf.mem)
              /\ Content(buf.mem) = Replaced(d, s, rep)

\* the offset of the first occurrence of s in d, CLZ_NOT_FOUND when there is
\* none
FirstOccurrence(d, s) ==
    IF \E i \in 0 .. Len(d) : MatchAt(d, i, s)
    THEN CHOOSE i \in 0 .. Len(d) :
            /\ MatchAt(d, i, s)
            /\ \A j \in 0 .. (i - 1) : ~MatchAt(d, j, s)
    ELSE CLZ_NOT_FOUND

\* C19: strbuf_replace_first_str(&b, s, t) returns CLZ_NOT_FOUND and leaves b
\* unchanged when s does not occur in b; otherwise it returns the offset i of
\* the first occurrence and leaves b[0, i), then t, then b[i + strlen(s),
\* length), terminated, with new length + 1 <= capacity (stated here for a
\* non-empty s)
C19_ReplaceFirstContent ==
    (IsCall("replace_first_str") /\ HasNul(pre.mem) /\ ~mfail
     /\ call.args[1] # << >>)
        => LET d == Content(pre.mem)
               s == call.args[1]
               rep == call.args[2]
               i == FirstOccurrence(d, s)
           IN /\ ~fault
              /\ val = i
              /\ (i = CLZ_NOT_FOUND => buf = pre)
              /\ (i # CLZ_NOT_FOUND =>
                    /\ HasNul(buf.mem)
                    /\ Content(buf.mem)
                          = SubSeq(d, 1, i) \o rep \o StrAt(d, i + Len(s))
                    /\ Strlen(buf.mem) + 1 <= strbuf_alloc_size(buf))

ReplaceCalls == {"replace_first_str", "replace_all_str"}

\* C20: when an allocation fails during strbuf_replace_first_str or
\* strbuf_replace_all_str the block behind the handle is as before the call
\* (capacity and bytes) and not released, and strbuf_replace_first_str
\* returns CLZ_GENERAL_FAIL
C20_ReplaceAllocFailure ==
    (call.name \in ReplaceCalls /\ mfail)
        => /\ ~fault
           /\ buf = pre
           /\ buf.id \in live
           /\ (IsCall("replace_first_str") => val = CLZ_GENERAL_FAIL)

FindCalls == {"find_first_str", "find_last_str"}

\* C21: with the empty needle strbuf_find_first_str and strbuf_find_last_str
\* return offset 0 for every buffer, the buffer with empty content included
C21_FindEmptyNeedle ==
    (call.name \in FindCalls /\ call.args[1] = << >> /\ HasNul(pre.mem))
        => /\ ~fault
           /\ val = 0

\* s occurs in d at offset i: d[i, i + strlen(s)) = s
OccursAt(d, i, s) ==
    /\ i + Len(s) <= Len(d)
    /\ \A k \in 1 .. Len(s) : d[i + k] = s[k]

OccurrenceOffsets(d, s) == {i \in 0 .. Len(d) : OccursAt(d, i, s)}

\* C22: for a non-empty needle s strbuf_find_first_str returns the least
\* offset at which s occurs in b and strbuf_find_last_str the greatest, both
\* return CLZ_NOT_FOUND exactly when s does not occur, and neither changes the
\* block behind the handle (capacity and bytes)
C22_FindFirstLast ==
    (call.name \in FindCalls /\ call.args[1] # << >> /\ HasNul(pre.mem))
        => LET occ == OccurrenceOffsets(Content(pre.mem), call.args[1])
           IN /\ ~fault
              /\ buf = pre
              /\ buf.id \in live
              /\ nalloc = 0
              /\ (occ = {}) <=> (val = CLZ_NOT_FOUND)
              /\ (occ # {}) => val \in occ
              /\ IsCall("find_first_str") => \A i \in occ : val <= i
              /\ IsCall("find_last_str") => \A i \in occ : val >= i

\* a needle that occurs more than once is searched from the back: the
\* offset returned is not the first one
C22_Witness ==
    /\ IsCall("find_last_str")
    /\ call.args[1] # << >>
    /\ HasNul(pre.mem)
    /\ val > 0
    /\ OccursAt(Content(pre.mem), 0, call.args[1])
    /\ buf = pre

\* C23: strbuf_trim_index(&b, start, end) leaves the content b[start, min(end,
\* length)), terminated, or the empty string when start >= length or start >=
\* end, in the same block with the same capacity (strbuf_trim_length(&b, n) is
\* the call with start = 0); stated for the calls whose allocation succeeded
C23_TrimIndexContent ==
    (IsCall("trim_index") /\ HasNul(pre.mem) /\ ~mfail)
        => LET d == Content(pre.mem)
               start == call.args[1]
               end == IF call.args[2] > Len(d) THEN Len(d) ELSE call.args[2]
           IN /\ ~fault
              /\ HasNul(buf.mem)
              /\ Content(buf.mem) =
                    (IF start >= Len(d) \/ start >= end THEN << >>
                     ELSE SubSeq(d, start + 1, end))
              /\ buf.id = pre.id
              /\ strbuf_alloc_size(buf) = strbuf_alloc_size(pre)

RECURSIVE StripHead(_, _)
StripHead(d, c) ==
    IF d # << >> /\ Head(d) = c THEN StripHead(Tail(d), c) ELSE d

RECURSIVE StripTail(_, _)
StripTail(d, c) ==
    IF d # << >> /\ d[Len(d)] = c THEN StripTail(SubSeq(d, 1, Len(d) - 1), c) ELSE d

TrimCharCalls == {"trim_head_char", "trim_tail_char"}

\* C24: strbuf_trim_head_char(&b, c) leaves the content without its maximal
\* prefix of bytes equal to c and strbuf_trim_tail_char(&b, c) without its
\* maximal suffix, the other bytes in order (the empty string when nothing
\* else is left), with no access outside the storage and the capacity
\* unchanged; stated for the calls whose allocation succeeded
C24_TrimCharContent ==
    (call.name \in TrimCharCalls /\ HasNul(pre.mem) /\ ~mfail)
        => LET d == Content(pre.mem)
               c == call.args[1]
           IN /\ ~fault
              /\ HasNul(buf.mem)
              /\ Content(buf.mem) =
                    (IF IsCall("trim_head_char") THEN StripHead(d, c)
                     ELSE StripTail(d, c))
              /\ buf.id = pre.id
              /\ strbuf_alloc_size(buf) = strbuf_alloc_size(pre)

\* C25: strbuf_padding_head(&b, c, sz) and strbuf_padding_tail(&b, c, sz) with
\* strlen(b) <= sz return true and leave sz - strlen(b) copies of c before
\* (head) or after (tail) the old content, so that the length is sz; with
\* strlen(b) = sz nothing changes; stated for the calls whose allocations
\* succeeded
C25_PaddingContent ==
    (call.name \in PaddingCalls /\ HasNul(pre.mem) /\ ~mfail
        /\ Strlen(pre.mem) <= call.args[2])
        => LET d == Content(pre.mem)
               pad == Rep(call.args[1], call.args[2] - Len(d))
           IN /\ ~fault
              /\ ret = TRUE
              /\ HasNul(buf.mem)
              /\ Content(buf.mem) =
                    (IF IsCall("padding_head") THEN pad \o d ELSE d \o pad)
              /\ (Len(d) = call.args[2]) => buf = pre

RemoveCalls == {"remove_char", "remove_str"}

\* C26: strbuf_remove_str(&b, start, end) with start < end and start <
\* strlen(b) returns true and leaves b[0, start) followed by b[min(end,
\* length), length), terminated; strbuf_remove_char(&b, i) with i < strlen(b)
\* is the removal of [i, i + 1); stated for the calls whose allocations
\* succeeded
C26_RemoveContent ==
    LET d == Content(pre.mem)
        start == call.args[1]
        end == IF IsCall("remove_char") THEN start + 1 ELSE call.args[2]
        e == IF end > Len(d) THEN Len(d) ELSE end
    IN (call.name \in RemoveCalls /\ HasNul(pre.mem) /\ ~mfail
            /\ start < end /\ start < Len(d))
        => /\ ~fault
           /\ ret = TRUE
           /\ HasNul(buf.mem)
           /\ Content(buf.mem) = SubSeq(d, 1, start) \o SubSeq(d, e + 1, Len(d))

\* the blocks that are allocated, not released and not the handle's storage
Unreleased(lv, b) == lv \ {b.id}

\* C27: no call that completes leaves a superseded or temporary block
\* unreleased and none releases a block twice: after every step the allocated
\* blocks other than the handle's storage are those there were before it (and,
\* after a clone, the source, whose handle the caller still holds)
C27_NoLeakNoDoubleFree ==
    [][~fault'
        => /\ ~dfree'
           /\ Unreleased(live', buf') \subseteq
                (Unreleased(live, buf)
                    \cup (IF call'.name = "clone" THEN {buf.id} ELSE {}))]_vars

\* C28: the capacity strbuf_alloc_size reports for a live buffer does not
\* exceed the number of data bytes allocated for its storage
C28_CapacityWithinStorage ==
    (buf # NULL /\ ~fault) => strbuf_alloc_size(buf) <= buf.size

\* C29: strbuf_replace_all_str terminates for every buffer, needle and
\* replacement, the empty needle and a replacement that contains the needle
\* included.  Its loop is left when the needle is not found in the haystack,
\* and nothing but the haystack pointer changes what the search is given: the
\* call terminates exactly when every turn that stays in the loop moves the
\* haystack pointer forward (it then ends within strlen(b) turns)
C29_ReplaceAllTerminates ==
    [][(iter.on /\ iter'.on) => Len(iter'.haystack) < Len(iter.haystack)]_vars

\* the number of bytes strncpy is told to write by the last append_strn
AppendStrnCount == call.args[2]

\* C30: strbuf_append_strn(&b, src, n) with n > strlen(src) that does not
\* report failure writes its n bytes (the bytes of src, then the padding NULs)
\* at offsets below the capacity it ensured for the destination, and none of
\* them outside the destination's storage
C30_AppendStrnWithinStorage ==
    (IsCall("append_strn") /\ HasNul(pre.mem) /\ AppendStrnCount > Len(call.args[1])
        /\ ReturnedTrue)
        => /\ ~fault
           /\ Strlen(pre.mem) + AppendStrnCount <= strbuf_alloc_size(buf)

====
